---- MODULE Spec2Model ----
(***************************************************************************)
(* Asynchronous job tracking of the file-handle gateway.                   *)
(*                                                                         *)
(*  - Mineru (src/api/mineru/api.py): task registry _task_status under     *)
(*    _task_lock, job queue _task_queue under the condition variable       *)
(*    _queue_cv, MINERU_WORKER_THREADS daemon threads running              *)
(*    _worker_loop, the handlers parse_async_file and parse_result.        *)
(*  - LibreOffice (src/api/libreoffice/api.py): task registry              *)
(*    _task_status under _task_lock, one thread per job running            *)
(*    _async_convert_task, the handlers convert_document_async and         *)
(*    get_conversion_result, and cleanup_temp_files.                       *)
(*                                                                         *)
(* The handlers are "async def" functions without any await, so the event  *)
(* loop runs one handler at a time: the model has one handler position     *)
(* (hpc).  Worker threads and per-job threads are real threads and         *)
(* interleave with the handler and with each other at every lock           *)
(* acquisition, wait and external call.                                    *)
(*                                                                         *)
(* The two routers are separate Python modules: each has its own           *)
(* _task_status and _task_lock and neither reads the other's state.  A     *)
(* run of the model follows the traffic of one router (variable router,    *)
(* chosen in Init) and the other router stays in its start state; every    *)
(* property below speaks about one router's variables at a time.           *)
(*                                                                         *)
(* Spec takes every uuid4 value to be new.  SpecDup is the same program    *)
(* with uuid4 values that may repeat on the Mineru router.                 *)
(***************************************************************************)
EXTENDS Integers, Sequences, FiniteSets, TLC

\* ---------------------------------------------------------------- bounds
NumWorkers == 2      \* MINERU_WORKER_THREADS (read from the environment)
MaxJobs    == 2      \* Mineru submissions accepted in one run
MaxConv    == 2      \* LibreOffice submissions accepted in one run
MaxDup     == 1      \* uuid4 values that repeat in one run of SpecDup

Workers == 1..NumWorkers
IDs     == 1..MaxJobs          \* Mineru task ids (uuid4 values)
CIDs    == 1..MaxConv          \* LibreOffice task ids (uuid4 values)

Free == 0                      \* a lock nobody holds
Loop == -1                     \* the event-loop thread, as a lock owner
NoId == 0                      \* a local task_id that is not set
None == "None"                 \* Python None / a missing dict key
NoTime == 0                    \* a timestamp key that is not set

VARIABLES
  router,        \* the router whose traffic the run follows
  task_status,   \* Mineru _task_status: a function from the ids it holds
  task_lock,     \* owner of Mineru _task_lock
  task_queue,    \* Mineru _task_queue
  queue_cv,      \* owner of the lock inside _queue_cv
  cv_waiters,    \* workers blocked inside _queue_cv.wait()
  wpc,           \* position of each worker in _worker_loop
  wtask,         \* each worker's local task_id (NoId once it is dead)
  wrec,          \* each worker's local task: the dict it claimed, named
                 \* by its created_at (NoTime once it is dead)
  wresult,       \* each worker's local result / exception of the call
  clock,         \* value the next time.time() returns
  hpc,           \* position of the handler the event loop is running
  hid,           \* the running handler's task_id
  resp,          \* the response the running handler has built, until sent
  sub_log,       \* history: Mineru ids in order of registry insert
  enq_log,       \* history: Mineru ids in order of append to the queue
  ret_log,       \* history: Mineru ids in order of return to the client
  deq_log,       \* history: Mineru ids in order of pop(0)
  start_log,     \* history: Mineru ids in order of transition to processing
  calls,         \* history: number of _call_mineru_parse calls per id
  outcome,       \* history: how the call for each id ended
  conv_status,   \* LibreOffice _task_status: a function from the ids it holds
  conv_lock,     \* owner of LibreOffice _task_lock
  tpc,           \* position of each job's thread in _async_convert_task
  tresult,       \* each thread's local (success, err) or exception
  in_files,      \* ids whose upload exists under UPLOAD_DIR
  out_files,     \* ids whose PDF exists under OUTPUT_DIR
  cleanups,      \* ids with a scheduled cleanup_temp_files task
  hlocal,        \* get_conversion_result's locals status, output_path, error
  conv_ret_log,  \* history: LibreOffice ids in order of return to the client
  conv_calls,    \* history: number of Gotenberg calls per id
  conv_outcome   \* history: how the Gotenberg call for each id ended

mvars == <<task_status, task_lock, task_queue, queue_cv, cv_waiters, wpc,
           wtask, wrec, wresult, clock, sub_log, enq_log, ret_log, deq_log,
           start_log, calls, outcome>>
cvars == <<conv_status, conv_lock, tpc, tresult, in_files, out_files,
           cleanups, conv_ret_log, conv_calls, conv_outcome>>
hvars == <<hpc, hid, resp, hlocal>>
vars  == <<router, mvars, cvars, hvars>>

\* ------------------------------------------------------------- helpers
Range(s) == {s[i] : i \in 1..Len(s)}

Min(S) == CHOOSE x \in S : \A y \in S : x <= y

\* uuid.uuid4(): a value no earlier call returned.  The values are
\* interchangeable, so the least unused one stands for all of them.
uuid4(used, pool) == IF pool \ used = {} THEN {} ELSE {Min(pool \ used)}

\* the record parse_async_file stores (base_url and file_path are the
\* non-empty strings use_base and str(saved))
NewTask(now) ==
  [status |-> "pending", file_path |-> TRUE, created_at |-> now,
   started_at |-> NoTime, result |-> None, error |-> None,
   finished_at |-> NoTime]

\* d[k] = v of a Python dict
Put(d, k, v) == [x \in DOMAIN d \cup {k} |-> IF x = k THEN v ELSE d[x]]

Detail(text) == [detail |-> text]

NoResp == [api |-> "none", id |-> NoId, code |-> 0, body |-> Detail("none")]

Response(api, id, code, body) ==
  [api |-> api, id |-> id, code |-> code, body |-> body]

\* the record convert_document_async stores
NewConv == [status |-> "pending", output_path |-> None, error |-> None]

NoLocal == [status |-> None, output_path |-> None, error |-> None]

\* ---------------------------------------------------------------- Init
\* everything but the worker threads
InitRest ==
  /\ router \in {"mineru", "libre_office"}
  /\ conv_status = <<>>
  /\ conv_lock = Free
  /\ tpc = [c \in CIDs |-> "unborn"]
  /\ tresult = [c \in CIDs |-> None]
  /\ in_files = {}
  /\ out_files = {}
  /\ cleanups = {}
  /\ hlocal = NoLocal
  /\ conv_ret_log = <<>>
  /\ conv_calls = [c \in CIDs |-> 0]
  /\ conv_outcome = [c \in CIDs |-> None]
  /\ task_status = <<>>
  /\ task_lock = Free
  /\ task_queue = <<>>
  /\ queue_cv = Free
  /\ cv_waiters = {}
  /\ wtask = [w \in Workers |-> NoId]
  /\ wrec = [w \in Workers |-> NoTime]
  /\ wresult = [w \in Workers |-> None]
  /\ clock = 1
  /\ hpc = "idle"
  /\ hid = NoId
  /\ resp = NoResp
  /\ sub_log = <<>>
  /\ enq_log = <<>>
  /\ ret_log = <<>>
  /\ deq_log = <<>>
  /\ start_log = <<>>
  /\ calls = [i \in IDs |-> 0]
  /\ outcome = [i \in IDs |-> None]

\* lines 150-153: MINERU_WORKER_THREADS threads are started at import
Init == InitRest /\ wpc = [w \in Workers |-> "acquire_cv"]

\* the same with MINERU_WORKER_THREADS set to any n up to NumWorkers: the
\* workers past n are never started
InitPool ==
  /\ InitRest
  /\ \E n \in 1..NumWorkers :
        wpc = [w \in Workers |-> IF w <= n THEN "acquire_cv"
                                 ELSE "unstarted"]

\* the number of worker threads that were started
PoolSize == Cardinality({w \in Workers : wpc[w] # "unstarted"})

\* ------------------------------------------------- Mineru _worker_loop
\* line 116: with _queue_cv  (also the re-acquire at the end of wait())
WorkerAcquireCv(w) ==
  /\ router = "mineru"
  /\ wpc[w] \in {"acquire_cv", "notified"}
  /\ queue_cv = Free
  /\ queue_cv' = w
  /\ wpc' = [wpc EXCEPT ![w] = "check_queue"]
  /\ UNCHANGED <<task_status, task_lock, task_queue, cv_waiters, wtask, wrec,
                 wresult, clock, sub_log, enq_log, ret_log, deq_log,
                 start_log, calls, outcome, hvars, router, cvars>>

\* lines 117-118: the queue is empty: wait() releases the lock and blocks
WorkerWait(w) ==
  /\ wpc[w] = "check_queue"
  /\ task_queue = <<>>
  /\ queue_cv' = Free
  /\ cv_waiters' = cv_waiters \cup {w}
  /\ wpc' = [wpc EXCEPT ![w] = "waiting"]
  /\ UNCHANGED <<task_status, task_lock, task_queue, wtask, wrec, wresult,
                 clock, sub_log, enq_log, ret_log, deq_log, start_log, calls,
                 outcome, hvars, router, cvars>>

\* mutant: task_id = _task_queue.pop(), the newest entry instead of the oldest
WorkerPop_Lifo(w) ==
  /\ wpc[w] = "check_queue"
  /\ task_queue # <<>>
  /\ wtask' = [wtask EXCEPT ![w] = task_queue[Len(task_queue)]]
  /\ UNCHANGED wrec
  /\ task_queue' = SubSeq(task_queue, 1, Len(task_queue) - 1)
  /\ deq_log' = Append(deq_log, task_queue[Len(task_queue)])
  /\ queue_cv' = Free
  /\ wpc' = [wpc EXCEPT ![w] = "acquire_claim"]
  /\ UNCHANGED <<task_status, task_lock, cv_waiters, wresult, clock, sub_log,
                 enq_log, ret_log, start_log, calls, outcome, hvars, router,
                 cvars>>

\* mutant: task_id = _task_queue[0], the entry stays in the queue
WorkerPop_Peek(w) ==
  /\ wpc[w] = "check_queue"
  /\ task_queue # <<>>
  /\ wtask' = [wtask EXCEPT ![w] = Head(task_queue)]
  /\ UNCHANGED wrec
  /\ deq_log' = Append(deq_log, Head(task_queue))
  /\ queue_cv' = Free
  /\ wpc' = [wpc EXCEPT ![w] = "acquire_claim"]
  /\ UNCHANGED <<task_status, task_lock, task_queue, cv_waiters, wresult,
                 clock, sub_log, enq_log, ret_log, start_log, calls, outcome,
                 hvars, router, cvars>>

\* line 119: task_id = _task_queue.pop(0), then the with block ends
WorkerPop(w) ==
  /\ wpc[w] = "check_queue"
  /\ task_queue # <<>>
  /\ wtask' = [wtask EXCEPT ![w] = Head(task_queue)]
  /\ UNCHANGED wrec
  /\ task_queue' = Tail(task_queue)
  /\ deq_log' = Append(deq_log, Head(task_queue))
  /\ queue_cv' = Free
  /\ wpc' = [wpc EXCEPT ![w] = "acquire_claim"]
  /\ UNCHANGED <<task_status, task_lock, cv_waiters, wresult, clock, sub_log,
                 enq_log, ret_log, start_log, calls, outcome, hvars, router,
                 cvars>>

\* line 121: with _task_lock
WorkerLockClaim(w) ==
  /\ wpc[w] = "acquire_claim"
  /\ task_lock = Free
  /\ task_lock' = w
  /\ wpc' = [wpc EXCEPT ![w] = "claim"]
  /\ UNCHANGED <<task_status, task_queue, queue_cv, cv_waiters, wtask, wrec,
                 wresult, clock, sub_log, enq_log, ret_log, deq_log,
                 start_log, calls, outcome, hvars, router, cvars>>

\* mutant: the claim leaves the record pending and only notes started_at
WorkerClaim_NoProcessing(w) ==
  /\ wpc[w] = "claim"
  /\ LET id == wtask[w] IN
     /\ task_status' = [task_status EXCEPT ![id].started_at = clock]
     /\ clock' = clock + 1
     /\ start_log' = Append(start_log, id)
     /\ wrec' = [wrec EXCEPT ![w] = task_status[id].created_at]
     /\ wpc' = [wpc EXCEPT ![w] = "call"]
  /\ task_lock' = Free
  /\ UNCHANGED <<task_queue, queue_cv, cv_waiters, wtask, wresult, sub_log,
                 enq_log, ret_log, deq_log, calls, outcome, hvars, router,
                 cvars>>

\* mutant: the try block sits inside the with block, so the worker goes
\* into the converter call still holding _task_lock
WorkerClaim_HoldsLock(w) ==
  /\ wpc[w] = "claim"
  /\ LET id == wtask[w]
         task == task_status[id]
     IN IF id \notin DOMAIN task_status \/ task.status # "pending"
        THEN /\ wpc' = [wpc EXCEPT ![w] = "acquire_cv"]
             /\ wtask' = [wtask EXCEPT ![w] = NoId]
             /\ task_lock' = Free
             /\ UNCHANGED <<task_status, clock, start_log, wrec>>
        ELSE /\ task_status' = [task_status EXCEPT
                    ![id].status = "processing", ![id].started_at = clock]
             /\ clock' = clock + 1
             /\ start_log' = Append(start_log, id)
             /\ wrec' = [wrec EXCEPT ![w] = task.created_at]
             /\ wpc' = [wpc EXCEPT ![w] = "call"]
             /\ UNCHANGED <<wtask, task_lock>>
  /\ UNCHANGED <<task_queue, queue_cv, cv_waiters, wresult, sub_log, enq_log,
                 ret_log, deq_log, calls, outcome, hvars, router, cvars>>

\* mutant: no test of the status: whatever record is found is claimed
WorkerClaim_NoGuard(w) ==
  /\ wpc[w] = "claim"
  /\ LET id == wtask[w]
         task == task_status[id]
     IN IF id \notin DOMAIN task_status
        THEN /\ wpc' = [wpc EXCEPT ![w] = "acquire_cv"]
             /\ wtask' = [wtask EXCEPT ![w] = NoId]
             /\ UNCHANGED <<task_status, clock, start_log, wrec>>
        ELSE /\ task_status' = [task_status EXCEPT
                    ![id].status = "processing", ![id].started_at = clock]
             /\ clock' = clock + 1
             /\ start_log' = Append(start_log, id)
             /\ wrec' = [wrec EXCEPT ![w] = task.created_at]
             /\ wpc' = [wpc EXCEPT ![w] = "call"]
             /\ UNCHANGED wtask
  /\ task_lock' = Free
  /\ UNCHANGED <<task_queue, queue_cv, cv_waiters, wresult, sub_log, enq_log,
                 ret_log, deq_log, calls, outcome, hvars, router, cvars>>

\* lines 122-126: skip unless pending, else processing + started_at
WorkerClaim(w) ==
  /\ wpc[w] = "claim"
  /\ LET id == wtask[w]
         task == task_status[id]
     IN IF id \notin DOMAIN task_status \/ task.status # "pending"
        THEN /\ wpc' = [wpc EXCEPT ![w] = "acquire_cv"]
             /\ wtask' = [wtask EXCEPT ![w] = NoId]
             /\ wrec' = [wrec EXCEPT ![w] = NoTime]
             /\ UNCHANGED <<task_status, clock, start_log>>
        ELSE /\ task_status' = [task_status EXCEPT
                    ![id].status = "processing", ![id].started_at = clock]
             /\ clock' = clock + 1
             /\ start_log' = Append(start_log, id)
             /\ wrec' = [wrec EXCEPT ![w] = task.created_at]
             /\ wpc' = [wpc EXCEPT ![w] = "call"]
             /\ UNCHANGED wtask
  /\ task_lock' = Free
  /\ UNCHANGED <<task_queue, queue_cv, cv_waiters, wresult, sub_log, enq_log,
                 ret_log, deq_log, calls, outcome, hvars, router, cvars>>

\* line 122: task = _task_status.get(task_id) is a reference to the dict:
\* the worker's later writes reach the registry while the registry still
\* holds that same dict under task_id
InRegistry(w) ==
  /\ wtask[w] \in DOMAIN task_status
  /\ task_status[wtask[w]].created_at = wrec[w]

\* the External Converter Client, requests.post + raise_for_status inside
\* _call_mineru_parse: it returns a payload or raises
Outcomes == {"ok", "fail"}

\* lines 127-138: _call_mineru_parse(base_url, file_path), or the branch
\* for a task without file_path, which writes the record without the lock
WorkerCall(w) ==
  /\ wpc[w] = "call"
  /\ LET id == wtask[w] IN
     IF ~InRegistry(w) \/ task_status[id].file_path
     THEN /\ \E out \in Outcomes :
               /\ wresult' = [wresult EXCEPT ![w] = out]
               /\ outcome' = [outcome EXCEPT ![id] = out]
          /\ calls' = [calls EXCEPT ![id] = @ + 1]
          /\ wpc' = [wpc EXCEPT ![w] = "acquire_store"]
          /\ UNCHANGED <<task_status, clock, wtask, wrec>>
     ELSE /\ task_status' = [task_status EXCEPT
                 ![id].status = "error",
                 ![id].error = "no file_path in task",
                 ![id].finished_at = clock]
          /\ clock' = clock + 1
          /\ wpc' = [wpc EXCEPT ![w] = "acquire_cv"]
          /\ wtask' = [wtask EXCEPT ![w] = NoId]
          /\ wrec' = [wrec EXCEPT ![w] = NoTime]
          /\ UNCHANGED <<wresult, calls, outcome>>
  /\ UNCHANGED <<task_lock, task_queue, queue_cv, cv_waiters, sub_log,
                 enq_log, ret_log, deq_log, start_log, hvars, router, cvars>>

\* lines 139 and 144: with _task_lock
WorkerLockStore(w) ==
  /\ wpc[w] = "acquire_store"
  /\ task_lock = Free
  /\ task_lock' = w
  /\ wpc' = [wpc EXCEPT ![w] = "store"]
  /\ UNCHANGED <<task_status, task_queue, queue_cv, cv_waiters, wtask, wrec,
                 wresult, clock, sub_log, enq_log, ret_log, deq_log,
                 start_log, calls, outcome, hvars, router, cvars>>

\* mutant: a failed call is tried once more instead of being recorded
WorkerStore_Retry(w) ==
  /\ wpc[w] = "store"
  /\ LET id == wtask[w] IN
     IF wresult[w] = "fail" /\ calls[id] < 2
     THEN /\ wpc' = [wpc EXCEPT ![w] = "call"]
          /\ UNCHANGED <<task_status, clock, wtask, wrec>>
     ELSE /\ task_status' = [task_status EXCEPT ![id] =
                [@ EXCEPT !.status = IF wresult[w] = "ok" THEN "done"
                                     ELSE "error",
                          !.result = IF wresult[w] = "ok" THEN "payload"
                                     ELSE None,
                          !.error = IF wresult[w] = "ok" THEN None ELSE "msg",
                          !.finished_at = clock]]
          /\ clock' = clock + 1
          /\ wtask' = [wtask EXCEPT ![w] = NoId]
          /\ wrec' = [wrec EXCEPT ![w] = NoTime]
          /\ wpc' = [wpc EXCEPT ![w] = "acquire_cv"]
  /\ task_lock' = Free
  /\ wresult' = [wresult EXCEPT ![w] = None]
  /\ UNCHANGED <<task_queue, queue_cv, cv_waiters, sub_log, enq_log, ret_log,
                 deq_log, start_log, calls, outcome, hvars, router, cvars>>

\* mutant: no except clause: the exception ends the worker thread and the
\* record stays as it is
WorkerStore_ErrorEscapes(w) ==
  /\ wpc[w] = "store"
  /\ LET id == wtask[w] IN
     IF wresult[w] = "ok"
     THEN /\ task_status' = [task_status EXCEPT ![id] =
                [@ EXCEPT !.status = "done", !.result = "payload",
                          !.finished_at = clock]]
          /\ clock' = clock + 1
          /\ wpc' = [wpc EXCEPT ![w] = "acquire_cv"]
     ELSE /\ wpc' = [wpc EXCEPT ![w] = "dead"]
          /\ UNCHANGED <<task_status, clock>>
  /\ task_lock' = Free
  /\ wresult' = [wresult EXCEPT ![w] = None]
  /\ wtask' = [wtask EXCEPT ![w] = NoId]
  /\ wrec' = [wrec EXCEPT ![w] = NoTime]
  /\ UNCHANGED <<task_queue, queue_cv, cv_waiters, sub_log, enq_log, ret_log,
                 deq_log, start_log, calls, outcome, hvars, router, cvars>>

\* mutant: the result is stored whatever the call did (a finally clause
\* in place of the except clause)
WorkerStore_AlwaysDone(w) ==
  /\ wpc[w] = "store"
  /\ LET id == wtask[w] IN
     task_status' = [task_status EXCEPT ![id] =
        [@ EXCEPT !.status = "done", !.result = "payload",
                  !.finished_at = clock]]
  /\ clock' = clock + 1
  /\ task_lock' = Free
  /\ wresult' = [wresult EXCEPT ![w] = None]
  /\ wtask' = [wtask EXCEPT ![w] = NoId]
  /\ wrec' = [wrec EXCEPT ![w] = NoTime]
  /\ wpc' = [wpc EXCEPT ![w] = "acquire_cv"]
  /\ UNCHANGED <<task_queue, queue_cv, cv_waiters, sub_log, enq_log, ret_log,
                 deq_log, start_log, calls, outcome, hvars, router, cvars>>

\* mutant: the status is written in one critical section and the result
\* in a second one
WorkerStore_StatusFirst(w) ==
  /\ wpc[w] = "store"
  /\ LET id == wtask[w]
         first == task_status[id].status = "processing"
     IN /\ task_status' = [task_status EXCEPT ![id] =
              IF first
              THEN [@ EXCEPT !.status = IF wresult[w] = "ok" THEN "done"
                                        ELSE "error"]
              ELSE IF wresult[w] = "ok"
              THEN [@ EXCEPT !.result = "payload", !.finished_at = clock]
              ELSE [@ EXCEPT !.error = "msg", !.finished_at = clock]]
        /\ wresult' = IF first THEN wresult
                      ELSE [wresult EXCEPT ![w] = None]
        /\ wtask' = IF first THEN wtask ELSE [wtask EXCEPT ![w] = NoId]
        /\ wrec' = IF first THEN wrec ELSE [wrec EXCEPT ![w] = NoTime]
        /\ wpc' = [wpc EXCEPT ![w] = IF first THEN "acquire_store"
                                     ELSE "acquire_cv"]
  /\ clock' = clock + 1
  /\ task_lock' = Free
  /\ UNCHANGED <<task_queue, queue_cv, cv_waiters, sub_log, enq_log, ret_log,
                 deq_log, start_log, calls, outcome, hvars, router, cvars>>

\* mutant: the except clause records the error and then raises again, so
\* the exception leaves the loop and the thread ends
WorkerStore_Reraise(w) ==
  /\ wpc[w] = "store"
  /\ LET id == wtask[w] IN
     task_status' = [task_status EXCEPT ![id] =
        IF wresult[w] = "ok"
        THEN [@ EXCEPT !.status = "done", !.result = "payload",
                       !.finished_at = clock]
        ELSE [@ EXCEPT !.status = "error", !.error = "msg",
                       !.finished_at = clock]]
  /\ clock' = clock + 1
  /\ task_lock' = Free
  /\ wresult' = [wresult EXCEPT ![w] = None]
  /\ wtask' = [wtask EXCEPT ![w] = NoId]
  /\ wrec' = [wrec EXCEPT ![w] = NoTime]
  /\ wpc' = [wpc EXCEPT ![w] = IF wresult[w] = "ok" THEN "acquire_cv"
                               ELSE "dead"]
  /\ UNCHANGED <<task_queue, queue_cv, cv_waiters, sub_log, enq_log, ret_log,
                 deq_log, start_log, calls, outcome, hvars, router, cvars>>

\* mutant: the except clause does not write finished_at
WorkerStore_NoFinishOnError(w) ==
  /\ wpc[w] = "store"
  /\ LET id == wtask[w] IN
     task_status' = [task_status EXCEPT ![id] =
        IF wresult[w] = "ok"
        THEN [@ EXCEPT !.status = "done", !.result = "payload",
                       !.finished_at = clock]
        ELSE [@ EXCEPT !.status = "error", !.error = "msg"]]
  /\ clock' = clock + 1
  /\ task_lock' = Free
  /\ wresult' = [wresult EXCEPT ![w] = None]
  /\ wtask' = [wtask EXCEPT ![w] = NoId]
  /\ wrec' = [wrec EXCEPT ![w] = NoTime]
  /\ wpc' = [wpc EXCEPT ![w] = "acquire_cv"]
  /\ UNCHANGED <<task_queue, queue_cv, cv_waiters, sub_log, enq_log, ret_log,
                 deq_log, start_log, calls, outcome, hvars, router, cvars>>

\* mutant: a successful call is marked done but its payload is not stored
WorkerStore_ResultDropped(w) ==
  /\ wpc[w] = "store"
  /\ LET id == wtask[w] IN
     task_status' =
        IF ~InRegistry(w) THEN task_status
        ELSE [task_status EXCEPT ![id] =
                IF wresult[w] = "ok"
                THEN [@ EXCEPT !.status = "done", !.finished_at = clock]
                ELSE [@ EXCEPT !.status = "error", !.error = "msg",
                               !.finished_at = clock]]
  /\ clock' = clock + 1
  /\ task_lock' = Free
  /\ wresult' = [wresult EXCEPT ![w] = None]
  /\ wtask' = [wtask EXCEPT ![w] = NoId]
  /\ wrec' = [wrec EXCEPT ![w] = NoTime]
  /\ wpc' = [wpc EXCEPT ![w] = "acquire_cv"]
  /\ UNCHANGED <<task_queue, queue_cv, cv_waiters, sub_log, enq_log, ret_log,
                 deq_log, start_log, calls, outcome, hvars, router, cvars>>

\* lines 140-142 (done, result) and 145-147 (error, str(e)), then the
\* loop starts over.  The writes go to the worker's local task: they show
\* in the registry when that dict is still the one stored under task_id.
WorkerStore(w) ==
  /\ wpc[w] = "store"
  /\ LET id == wtask[w] IN
     task_status' =
        IF ~InRegistry(w) THEN task_status
        ELSE [task_status EXCEPT ![id] =
                IF wresult[w] = "ok"
                THEN [@ EXCEPT !.status = "done", !.result = "payload",
                               !.finished_at = clock]
                ELSE [@ EXCEPT !.status = "error", !.error = "msg",
                               !.finished_at = clock]]
  /\ clock' = clock + 1
  /\ task_lock' = Free
  /\ wresult' = [wresult EXCEPT ![w] = None]
  /\ wtask' = [wtask EXCEPT ![w] = NoId]
  /\ wrec' = [wrec EXCEPT ![w] = NoTime]
  /\ wpc' = [wpc EXCEPT ![w] = "acquire_cv"]
  /\ UNCHANGED <<task_queue, queue_cv, cv_waiters, sub_log, enq_log, ret_log,
                 deq_log, start_log, calls, outcome, hvars, router, cvars>>

\* ------------------------------------------- Mineru parse_async_file
\* lines 193-207: the checks that end the request before any id is made:
\* 415 not a PDF, 413 upload too large (_save_upload), 400 no base URL
MSubmitReject ==
  /\ router = "mineru"
  /\ hpc = "idle"
  /\ \E is_pdf \in BOOLEAN, too_large \in BOOLEAN, has_base \in BOOLEAN :
       /\ ~is_pdf \/ too_large \/ ~has_base
       /\ resp' = IF ~is_pdf
                  THEN Response("parse_async_file", NoId, 415,
                                Detail("Only PDF files are supported"))
                  ELSE IF too_large
                  THEN Response("parse_async_file", NoId, 413,
                                Detail("file too large"))
                  ELSE Response("parse_async_file", NoId, 400,
                                Detail("base URL not configured"))
  /\ hpc' = "respond"
  /\ UNCHANGED <<router, mvars, cvars, hid, hlocal>>

\* the framework sends the response the handler raised or returned
Respond ==
  /\ hpc = "respond"
  /\ resp' = NoResp
  /\ hpc' = "idle"
  /\ hid' = NoId
  /\ UNCHANGED <<router, mvars, cvars, hlocal>>

\* lines 208-209: task_id = str(uuid.uuid4()); with _task_lock
MSubmitLockCreate ==
  /\ router = "mineru"
  /\ hpc = "idle"
  /\ task_lock = Free
  /\ \E id \in uuid4(DOMAIN task_status, IDs) : hid' = id
  /\ task_lock' = Loop
  /\ hpc' = "m_create"
  /\ UNCHANGED <<task_status, task_queue, queue_cv, cv_waiters, wpc, wtask,
                 wrec, wresult, clock, sub_log, enq_log, ret_log, deq_log,
                 start_log, calls, outcome, resp, hlocal, router, cvars>>

\* lines 208-209 when uuid.uuid4() returns a value it returned before
\* (not excluded by the code: only improbable); part of SpecDup only
MSubmitLockCreateDup ==
  /\ router = "mineru"
  /\ hpc = "idle"
  /\ task_lock = Free
  /\ Len(sub_log) - Cardinality(DOMAIN task_status) < MaxDup
  /\ \E id \in DOMAIN task_status : hid' = id
  /\ task_lock' = Loop
  /\ hpc' = "m_create"
  /\ UNCHANGED <<task_status, task_queue, queue_cv, cv_waiters, wpc, wtask,
                 wrec, wresult, clock, sub_log, enq_log, ret_log, deq_log,
                 start_log, calls, outcome, resp, hlocal, router, cvars>>

\* mutant: the handler goes on to enqueue without storing the record
MSubmitCreate_NoInsert ==
  /\ hpc = "m_create"
  /\ sub_log' = Append(sub_log, hid)
  /\ task_lock' = Free
  /\ hpc' = "m_acquire_cv"
  /\ UNCHANGED <<task_status, clock, task_queue, queue_cv, cv_waiters, wpc,
                 wtask, wrec, wresult, enq_log, ret_log, deq_log, start_log,
                 calls, outcome, hid, resp, hlocal, router, cvars>>

\* mutant: the append to the queue is nested in the with _task_lock block
MSubmitCreate_Nested ==
  /\ hpc = "m_create"
  /\ task_status' = Put(task_status, hid, NewTask(clock))
  /\ clock' = clock + 1
  /\ sub_log' = Append(sub_log, hid)
  /\ task_lock' = task_lock
  /\ hpc' = "m_acquire_cv"
  /\ UNCHANGED <<task_queue, queue_cv, cv_waiters, wpc, wtask, wrec, wresult,
                 enq_log, ret_log, deq_log, start_log, calls, outcome, hid,
                 resp, hlocal, router, cvars>>

\* line 210: _task_status[task_id] = {...pending...}
MSubmitCreate ==
  /\ hpc = "m_create"
  /\ task_status' = Put(task_status, hid, NewTask(clock))
  /\ clock' = clock + 1
  /\ sub_log' = Append(sub_log, hid)
  /\ task_lock' = Free
  /\ hpc' = "m_acquire_cv"
  /\ UNCHANGED <<task_queue, queue_cv, cv_waiters, wpc, wtask, wrec, wresult,
                 enq_log, ret_log, deq_log, start_log, calls, outcome, hid,
                 resp, hlocal, router, cvars>>

\* line 211: with _queue_cv
MSubmitLockEnqueue ==
  /\ hpc = "m_acquire_cv"
  /\ queue_cv = Free
  /\ queue_cv' = Loop
  /\ hpc' = "m_enqueue"
  /\ UNCHANGED <<task_status, task_lock, task_queue, cv_waiters, wpc, wtask,
                 wrec, wresult, clock, sub_log, enq_log, ret_log, deq_log,
                 start_log, calls, outcome, hid, resp, hlocal, router, cvars>>

\* mutant: the notification reaches nobody
Notify_Lost(waiters, pcs) == {<<waiters, pcs>>}

\* _queue_cv.notify(): wakes one thread blocked in wait(), if there is one
Notify(waiters, pcs) ==
  IF waiters = {}
  THEN {<<waiters, pcs>>}
  ELSE {<<waiters \ {w}, [pcs EXCEPT ![w] = "notified"]>> : w \in waiters}

\* mutant: _task_queue.insert(0, task_id) in place of append
MSubmitEnqueue_Front ==
  /\ hpc = "m_enqueue"
  /\ task_queue' = <<hid>> \o task_queue
  /\ enq_log' = Append(enq_log, hid)
  /\ \E n \in Notify(cv_waiters, wpc) : cv_waiters' = n[1] /\ wpc' = n[2]
  /\ queue_cv' = Free
  /\ ret_log' = Append(ret_log, hid)
  /\ hpc' = "idle"
  /\ hid' = NoId
  /\ UNCHANGED <<task_status, task_lock, wtask, wrec, wresult, clock, sub_log,
                 deq_log, start_log, calls, outcome, resp, hlocal, router,
                 cvars>>

\* lines 212-214: append, notify, release, return {"task_id": task_id}
MSubmitEnqueue ==
  /\ hpc = "m_enqueue"
  /\ task_queue' = Append(task_queue, hid)
  /\ enq_log' = Append(enq_log, hid)
  /\ \E n \in Notify(cv_waiters, wpc) : cv_waiters' = n[1] /\ wpc' = n[2]
  /\ queue_cv' = Free
  /\ ret_log' = Append(ret_log, hid)
  /\ hpc' = "idle"
  /\ hid' = NoId
  /\ UNCHANGED <<task_status, task_lock, wtask, wrec, wresult, clock, sub_log,
                 deq_log, start_log, calls, outcome, resp, hlocal, router,
                 cvars>>

\* ------------------------------------------------ Mineru parse_result
\* lines 220-223: 404 for an unknown id, else the whole record with 200
parse_result(id) ==
  IF id \notin DOMAIN task_status
  THEN Response("parse_result", id, 404, Detail("unknown task_id"))
  ELSE Response("parse_result", id, 200, task_status[id])

\* lines 219-223: with _task_lock, for the task_id of the request path,
\* build the response
MResultLock ==
  /\ router = "mineru"
  /\ hpc = "idle"
  /\ task_lock = Free
  /\ \E id \in IDs : hid' = id /\ resp' = parse_result(id)
  /\ task_lock' = Loop
  /\ hpc' = "m_result"
  /\ UNCHANGED <<task_status, task_queue, queue_cv, cv_waiters, wpc, wtask,
                 wrec, wresult, clock, sub_log, enq_log, ret_log, deq_log,
                 start_log, calls, outcome, hlocal, router, cvars>>

\* mutant: a finished record is dropped from the registry once it has
\* been fetched
MResult_Evict ==
  /\ hpc = "m_result"
  /\ task_status' =
        IF hid \in DOMAIN task_status
           /\ task_status[hid].status \in {"done", "error"}
        THEN [x \in DOMAIN task_status \ {hid} |-> task_status[x]]
        ELSE task_status
  /\ task_lock' = Free
  /\ resp' = NoResp
  /\ hpc' = "idle"
  /\ hid' = NoId
  /\ UNCHANGED <<task_queue, queue_cv, cv_waiters, wpc, wtask, wrec, wresult,
                 clock, sub_log, enq_log, ret_log, deq_log, start_log, calls,
                 outcome, hlocal, router, cvars>>

\* the with block ends and the response is sent
MResult ==
  /\ hpc = "m_result"
  /\ task_lock' = Free
  /\ resp' = NoResp
  /\ hpc' = "idle"
  /\ hid' = NoId
  /\ UNCHANGED <<task_status, task_queue, queue_cv, cv_waiters, wpc, wtask,
                 wrec, wresult, clock, sub_log, enq_log, ret_log, deq_log,
                 start_log, calls, outcome, hlocal, router, cvars>>

\* ------------------------------- LibreOffice convert_document_async
\* lines 173-178: 400 without a file name or with an unsupported suffix
CSubmitReject ==
  /\ router = "libre_office"
  /\ hpc = "idle"
  /\ \E has_name \in BOOLEAN, supported \in BOOLEAN :
       /\ ~has_name \/ ~supported
       /\ resp' = Response("converter_to_pdf_async", NoId, 400,
                           IF ~has_name THEN Detail("no file name")
                           ELSE Detail("unsupported file format"))
  /\ hpc' = "respond"
  /\ UNCHANGED <<router, mvars, cvars, hid, hlocal>>

\* lines 184-186, 209-213: saving the upload raises; the handler removes
\* the partial upload and answers 500
CSubmitSaveFail ==
  /\ router = "libre_office"
  /\ hpc = "idle"
  /\ resp' = Response("converter_to_pdf_async", NoId, 500,
                      Detail("submit failed"))
  /\ hpc' = "respond"
  /\ UNCHANGED <<router, mvars, cvars, hid, hlocal>>

\* lines 180-200: uuid4, the upload is saved, with _task_lock
CSubmitLockCreate ==
  /\ router = "libre_office"
  /\ hpc = "idle"
  /\ conv_lock = Free
  /\ \E id \in uuid4(DOMAIN conv_status, CIDs) :
       /\ hid' = id
       /\ in_files' = in_files \cup {id}
  /\ conv_lock' = Loop
  /\ hpc' = "c_create"
  /\ UNCHANGED <<router, mvars, conv_status, tpc, tresult, out_files,
                 cleanups, conv_ret_log, conv_calls, conv_outcome, resp,
                 hlocal>>

\* line 201: _task_status[task_id] = {pending, None, None}
CSubmitCreate ==
  /\ hpc = "c_create"
  /\ conv_status' = Put(conv_status, hid, NewConv)
  /\ conv_lock' = Free
  /\ hpc' = "c_start"
  /\ UNCHANGED <<router, mvars, tpc, tresult, in_files, out_files, cleanups,
                 conv_ret_log, conv_calls, conv_outcome, hid, resp, hlocal>>

\* lines 204-213: thread.start() and return {"task_id": task_id}; when
\* the thread cannot be started the handler removes the upload and
\* answers 500
CSubmitStart ==
  /\ hpc = "c_start"
  /\ \E started \in BOOLEAN :
       IF started
       THEN /\ tpc' = [tpc EXCEPT ![hid] = "call"]
            /\ conv_ret_log' = Append(conv_ret_log, hid)
            /\ hpc' = "idle"
            /\ hid' = NoId
            /\ UNCHANGED <<in_files, resp>>
       ELSE /\ in_files' = in_files \ {hid}
            /\ resp' = Response("converter_to_pdf_async", NoId, 500,
                                Detail("submit failed"))
            /\ hpc' = "respond"
            /\ UNCHANGED <<tpc, conv_ret_log, hid>>
  /\ UNCHANGED <<router, mvars, conv_status, conv_lock, tresult, out_files,
                 cleanups, conv_calls, conv_outcome, hlocal>>

\* ----------------------------------- LibreOffice _async_convert_task
\* the External Converter Client _post_to_gotenberg_and_save: status 200
\* and the PDF written, another status, or an exception
ConvOutcomes == {"ok", "http_error", "raise"}

\* lines 140-141 with lines 54-64
ConvCall(c) ==
  /\ tpc[c] = "call"
  /\ \E out \in ConvOutcomes :
       /\ tresult' = [tresult EXCEPT ![c] = out]
       /\ conv_outcome' = [conv_outcome EXCEPT ![c] = out]
       /\ out_files' = IF out = "ok" THEN out_files \cup {c} ELSE out_files
  /\ conv_calls' = [conv_calls EXCEPT ![c] = @ + 1]
  /\ tpc' = [tpc EXCEPT ![c] = "acquire"]
  /\ UNCHANGED <<router, mvars, conv_status, conv_lock, in_files, cleanups,
                 conv_ret_log, hvars>>

\* lines 142 and 151: with _task_lock
ConvLock(c) ==
  /\ tpc[c] = "acquire"
  /\ conv_lock = Free
  /\ conv_lock' = c
  /\ tpc' = [tpc EXCEPT ![c] = "store"]
  /\ UNCHANGED <<router, mvars, conv_status, tresult, in_files, out_files,
                 cleanups, conv_ret_log, conv_calls, conv_outcome, hvars>>

\* mutant: output_path is written before the test of success, so a failed
\* conversion records it too
ConvStore_PathOnError(c) ==
  /\ tpc[c] = "store"
  /\ conv_status' = [conv_status EXCEPT ![c] =
        IF tresult[c] = "ok"
        THEN [@ EXCEPT !.status = "done", !.output_path = "pdf"]
        ELSE [@ EXCEPT !.status = "error", !.output_path = "pdf",
                       !.error = "msg"]]
  /\ conv_lock' = Free
  /\ tresult' = [tresult EXCEPT ![c] = None]
  /\ tpc' = [tpc EXCEPT ![c] = "exited"]
  /\ UNCHANGED <<router, mvars, in_files, out_files, cleanups, conv_ret_log,
                 conv_calls, conv_outcome, hvars>>

\* lines 143-148 and 152-153, then the thread ends
ConvStore(c) ==
  /\ tpc[c] = "store"
  /\ conv_status' = [conv_status EXCEPT ![c] =
        IF tresult[c] = "ok"
        THEN [@ EXCEPT !.status = "done", !.output_path = "pdf"]
        ELSE [@ EXCEPT !.status = "error", !.error = "msg"]]
  /\ conv_lock' = Free
  /\ tresult' = [tresult EXCEPT ![c] = None]
  /\ tpc' = [tpc EXCEPT ![c] = "exited"]
  /\ UNCHANGED <<router, mvars, in_files, out_files, cleanups, conv_ret_log,
                 conv_calls, conv_outcome, hvars>>

\* -------------------------------- LibreOffice get_conversion_result
ConvBody(status, error, file) ==
  [status |-> status, error |-> error, file |-> file]

\* lines 218-223: with _task_lock: 404 for an unknown id, else read
\* status, output_path and error
CResultLock ==
  /\ router = "libre_office"
  /\ hpc = "idle"
  /\ conv_lock = Free
  /\ \E id \in CIDs :
       /\ hid' = id
       /\ IF id \notin DOMAIN conv_status
          THEN /\ resp' = Response("converter_result", id, 404,
                                   Detail("unknown task_id"))
               /\ UNCHANGED hlocal
          ELSE /\ hlocal' = conv_status[id]
               /\ UNCHANGED resp
  /\ conv_lock' = Loop
  /\ hpc' = "c_result"
  /\ UNCHANGED <<router, mvars, conv_status, tpc, tresult, in_files,
                 out_files, cleanups, conv_ret_log, conv_calls, conv_outcome>>

\* lines 225-237: the response for the values read, outside the lock
get_conversion_result(id, l, files) ==
  IF l.status = "pending"
  THEN Response("converter_result", id, 200,
                ConvBody("pending", None, None))
  ELSE IF l.status = "error"
  THEN Response("converter_result", id, 500,
                ConvBody("error", l.error, None))
  ELSE IF l.status = "done" /\ l.output_path # None /\ id \in files
  THEN Response("converter_result", id, 200,
                ConvBody("file", None, l.output_path))
  ELSE Response("converter_result", id, 500,
                ConvBody("unknown", None, None))

\* the with block ends; lines 225-237, with the cleanup scheduled for
\* after the response when the PDF is returned
CResult ==
  /\ hpc = "c_result"
  /\ conv_lock' = Free
  /\ IF resp.code = 404
     THEN UNCHANGED <<resp, cleanups>>
     ELSE LET r == get_conversion_result(hid, hlocal, out_files) IN
          /\ resp' = r
          /\ cleanups' = IF r.body.status = "file"
                         THEN cleanups \cup {hid} ELSE cleanups
  /\ hlocal' = NoLocal
  /\ hpc' = "respond"
  /\ UNCHANGED <<router, mvars, conv_status, tpc, tresult, in_files,
                 out_files, conv_ret_log, conv_calls, conv_outcome, hid>>

\* lines 38-46: cleanup_temp_files, run once the response has been sent
Cleanup(c) ==
  /\ c \in cleanups
  /\ ~(hpc = "respond" /\ hid = c)
  /\ in_files' = in_files \ {c}
  /\ out_files' = out_files \ {c}
  /\ cleanups' = cleanups \ {c}
  /\ UNCHANGED <<router, mvars, conv_status, conv_lock, tpc, tresult,
                 conv_ret_log, conv_calls, conv_outcome, hvars>>

\* ----------------------------------------------------- specification
WorkerNext ==
  \E w \in Workers :
     \/ WorkerAcquireCv(w)
     \/ WorkerWait(w)
     \/ WorkerPop(w)
     \/ WorkerLockClaim(w)
     \/ WorkerClaim(w)
     \/ WorkerCall(w)
     \/ WorkerLockStore(w)
     \/ WorkerStore(w)

MineruHandlerNext ==
  \/ MSubmitReject
  \/ Respond
  \/ MSubmitLockCreate
  \/ MSubmitCreate
  \/ MSubmitLockEnqueue
  \/ MSubmitEnqueue
  \/ MResultLock
  \/ MResult

ConvNext ==
  \E c \in CIDs :
     \/ ConvCall(c)
     \/ ConvLock(c)
     \/ ConvStore(c)
     \/ Cleanup(c)

ConvHandlerNext ==
  \/ CSubmitReject
  \/ CSubmitSaveFail
  \/ CSubmitLockCreate
  \/ CSubmitCreate
  \/ CSubmitStart
  \/ CResultLock
  \/ CResult

Next == WorkerNext \/ MineruHandlerNext \/ ConvNext \/ ConvHandlerNext

Spec == Init /\ [][Next]_vars

\* The same program when uuid4 values may repeat on the Mineru router.
NextDup == Next \/ MSubmitLockCreateDup

SpecDup == Init /\ [][NextDup]_vars

\* The same program for every size of the worker pool up to NumWorkers.
SpecPool == InitPool /\ [][Next]_vars

\* Scheduling: a thread that can run does run (weak fairness); a thread
\* waiting for a registry lock gets it when the lock keeps being released
\* (strong fairness, as result requests can take the lock again and
\* again); the queue monitor is taken only finitely often by the others,
\* so weak fairness covers it; a started handler runs to its response;
\* every external call returns or fails within its timeout.  New requests
\* are never required to arrive.
WorkerRun(w) ==
  \/ WorkerAcquireCv(w)
  \/ WorkerWait(w)
  \/ WorkerPop(w)
  \/ WorkerClaim(w)
  \/ WorkerCall(w)
  \/ WorkerStore(w)

WorkerLock(w) == WorkerLockClaim(w) \/ WorkerLockStore(w)

ConvRun(c) == ConvCall(c) \/ ConvStore(c)

HandlerRun ==
  \/ MSubmitCreate
  \/ MSubmitLockEnqueue
  \/ MSubmitEnqueue
  \/ MResult
  \/ Respond
  \/ CSubmitCreate
  \/ CSubmitStart
  \/ CResult

Fairness ==
  /\ \A w \in Workers : WF_vars(WorkerRun(w)) /\ SF_vars(WorkerLock(w))
  /\ \A c \in CIDs : WF_vars(ConvRun(c)) /\ SF_vars(ConvLock(c))
  /\ WF_vars(HandlerRun)

FairSpec == Spec /\ Fairness

\* ------------------------------------------------- shared vocabulary
NoDup(s) == \A i, j \in 1..Len(s) : s[i] = s[j] => i = j

IsPrefix(s, t) == Len(s) <= Len(t) /\ \A i \in 1..Len(s) : s[i] = t[i]

States == {"pending", "processing", "done", "error"}

Terminal == {"done", "error"}

MStatus(id) ==
  IF id \in DOMAIN task_status THEN task_status[id].status ELSE None

CStatus(c) ==
  IF c \in DOMAIN conv_status THEN conv_status[c].status ELSE None

\* ------------------------------------------------------------ claims

\* C1: every returned task_id is new, and from the return on its record
\* exists in the registry in one of the four states, so that a result
\* request for it, being answered under the lock, is never a 404.
C1_UniqueAndResolvable ==
  /\ NoDup(ret_log)
  /\ NoDup(conv_ret_log)
  /\ \A id \in Range(ret_log) : MStatus(id) \in States
  /\ \A c \in Range(conv_ret_log) : CStatus(c) \in States
  /\ (hpc = "m_result" /\ hid \in Range(ret_log)) =>
        (resp.code = 200 /\ resp.body.status \in States)
  /\ (hpc \in {"c_result", "respond"} /\ resp.api = "converter_result"
        /\ hid \in Range(conv_ret_log)) => resp.code # 404

C1_Witness ==
  /\ hpc = "m_result"
  /\ hid \in Range(ret_log)
  /\ Len(ret_log) = 2
  /\ resp.code = 200
  /\ resp.body.status = "pending"

\* a change of state along pending -> processing -> {done | error}
MoveOK(a, b) ==
  \/ a = b
  \/ <<a, b>> \in {<<None, "pending">>, <<"pending", "processing">>,
                   <<"processing", "done">>, <<"processing", "error">>}

\* a change of state along pending -> {done | error}
ConvMoveOK(a, b) ==
  \/ a = b
  \/ <<a, b>> \in {<<None, "pending">>, <<"pending", "done">>,
                   <<"pending", "error">>}

C4_TerminalAbsorbing ==
  [][/\ \A id \in DOMAIN task_status :
          task_status[id].status \in Terminal =>
             /\ id \in DOMAIN task_status'
             /\ task_status'[id] = task_status[id]
     /\ \A c \in DOMAIN conv_status :
          conv_status[c].status \in Terminal =>
             /\ c \in DOMAIN conv_status'
             /\ conv_status'[c] = conv_status[c]]_vars

C4_Witness ==
  /\ hpc = "m_result"
  /\ MStatus(hid) \in Terminal
  /\ \E id \in IDs : MStatus(id) = "processing"

\* C7: the queue never holds an identifier twice, no identifier is
\* dequeued twice, and a dequeued identifier is no longer in the queue.
C7_NoDuplicateDequeue ==
  /\ NoDup(task_queue)
  /\ NoDup(deq_log)
  /\ Range(task_queue) \cap Range(deq_log) = {}

C7_Witness ==
  /\ Len(deq_log) = 2
  /\ \E w1, w2 \in Workers :
        w1 # w2 /\ wtask[w1] # NoId /\ wtask[w2] # NoId

\* C8: identifiers leave the queue in the order the submissions stored
\* their records: the dequeued ones followed by the queued ones are the
\* enqueued ones, which are the first of the submitted ones in order.
C8_FifoDequeue ==
  /\ deq_log \o task_queue = enq_log
  /\ IsPrefix(enq_log, sub_log)

C8_Witness ==
  /\ Len(sub_log) = 2
  /\ Len(enq_log) = 1
  /\ Len(deq_log) = 1

\* C9 as stated: jobs enter processing in the order they were enqueued.
C9_Original == IsPrefix(start_log, enq_log)

\* C9 amended: when a job enters processing, every job enqueued before
\* it has already been removed from the queue by some worker; with more
\* than one worker two dequeued jobs may enter processing in either
\* order.
C9_Amended ==
  \A i \in 1..Len(enq_log) :
     enq_log[i] \in Range(start_log) =>
        \A j \in 1..(i - 1) :
           /\ enq_log[j] \in Range(deq_log)
           /\ enq_log[j] \notin Range(task_queue)

C9_Witness ==
  /\ Len(enq_log) = 2
  /\ start_log = <<enq_log[2], enq_log[1]>>

\* C5: under fair scheduling, with every converter call returning or
\* failing, every job whose submission returned an identifier reaches
\* done or error, on both routers.
C5_EventuallyTerminal ==
  /\ \A id \in IDs :
        (id \in Range(ret_log)) ~> (MStatus(id) \in Terminal)
  /\ \A c \in CIDs :
        (c \in Range(conv_ret_log)) ~> (CStatus(c) \in Terminal)

C5_Witness ==
  /\ Len(ret_log) = 2
  /\ \A id \in Range(ret_log) : MStatus(id) \in Terminal
  /\ \E id \in Range(ret_log) : MStatus(id) = "error"

\* C3: the converter is called at most once per identifier, never by two
\* workers for the same identifier, and under fair scheduling every
\* submitted job (as many jobs as workers, or more) ends in a terminal
\* record that rests on exactly one call.
C3_AtMostOnce ==
  /\ [](\A id \in IDs : calls[id] <= 1)
  /\ [](\A w1, w2 \in Workers :
           (w1 # w2 /\ wtask[w1] # NoId) => wtask[w1] # wtask[w2])
  /\ \A id \in IDs :
        (id \in Range(ret_log)) ~>
           (MStatus(id) \in Terminal /\ calls[id] = 1)

C3_Witness ==
  /\ Cardinality(IDs) >= NumWorkers
  /\ \A id \in IDs : MStatus(id) \in Terminal /\ calls[id] = 1
  /\ \A w \in Workers : wpc[w] = "waiting"

\* C6: every identifier appended to the queue is dequeued, a worker
\* blocked in wait() does not stay blocked while the queue holds work,
\* and the workers are never all blocked in wait() with work queued.
C6_NoLostEnqueue ==
  /\ \A id \in IDs :
        (id \in Range(task_queue)) ~> (id \in Range(deq_log))
  /\ \A w \in Workers :
        (wpc[w] = "waiting" /\ task_queue # <<>>) ~>
           (wpc[w] # "waiting" \/ task_queue = <<>>)
  /\ [](task_queue # <<>> => \E w \in Workers : wpc[w] # "waiting")

\* an enqueue whose notify found no waiting worker, one worker being in
\* the external call
C6_Witness ==
  /\ task_queue # <<>>
  /\ cv_waiters = {}
  /\ \A w \in Workers : wpc[w] # "notified"
  /\ \E w \in Workers : wpc[w] = "call"

\* C10: a job whose converter call failed never carries a result, in the
\* registry or in a response, is in error with a non-empty message once
\* its worker or thread has stored the outcome, and under fair scheduling
\* gets there.
C10_FailureIsError ==
  /\ [](\A id \in IDs : outcome[id] = "fail" =>
           /\ task_status[id].result = None
           /\ task_status[id].status \in {"processing", "error"}
           /\ task_status[id].status = "error" =>
                 task_status[id].error \notin {None, ""})
  /\ [](\A c \in CIDs : conv_outcome[c] \in {"http_error", "raise"} =>
           /\ conv_status[c].output_path = None
           /\ conv_status[c].status \in {"pending", "error"}
           /\ conv_status[c].status = "error" =>
                 conv_status[c].error \notin {None, ""})
  /\ []((hpc = "m_result" /\ resp.code = 200 /\ outcome[hid] = "fail") =>
              resp.body.result = None)
  /\ []((hpc = "respond" /\ resp.api = "converter_result"
           /\ resp.code # 404
           /\ conv_outcome[hid] \in {"http_error", "raise"}) =>
              resp.body.file = None)
  /\ \A id \in IDs :
        (outcome[id] = "fail") ~> (MStatus(id) = "error")
  /\ \A c \in CIDs :
        (conv_outcome[c] \in {"http_error", "raise"}) ~>
           (CStatus(c) = "error")

C10_Witness ==
  /\ hpc = "m_result"
  /\ outcome[hid] = "fail"
  /\ resp.code = 200
  /\ resp.body.status = "error"
  /\ resp.body.error = "msg"
  /\ resp.body.result = None

\* C11: a job whose converter call succeeded carries no error and is done
\* with its result as soon as its worker or thread has stored the
\* outcome; in the registry the state done and the result are present
\* together; and a result request, reading under the registry lock, never
\* sees done without the result.
C11_SuccessIsDone ==
  /\ \A id \in IDs : outcome[id] = "ok" =>
        /\ task_status[id].error = None
        /\ task_status[id].status \in {"processing", "done"}
        /\ task_status[id].status = "processing" =>
              \E w \in Workers :
                 /\ wtask[w] = id
                 /\ wpc[w] \in {"acquire_store", "store"}
                 /\ wresult[w] = "ok"
  /\ \A id \in DOMAIN task_status :
        task_status[id].status = "done" <=> task_status[id].result # None
  /\ \A c \in CIDs : conv_outcome[c] = "ok" =>
        /\ conv_status[c].error = None
        /\ conv_status[c].status \in {"pending", "done"}
        /\ conv_status[c].status = "pending" =>
              tpc[c] \in {"acquire", "store"} /\ tresult[c] = "ok"
  /\ \A c \in DOMAIN conv_status :
        conv_status[c].status = "done" <=> conv_status[c].output_path # None
  /\ (hpc = "m_result" /\ resp.code = 200 /\ resp.body.status = "done") =>
        resp.body.result = "payload" /\ resp.body.error = None
  /\ (hpc = "c_result" /\ hlocal.status = "done") =>
        hlocal.output_path = "pdf" /\ hlocal.error = None

\* a result request answered with a done record while another job is
\* still being processed
C11_Witness ==
  /\ hpc = "m_result"
  /\ outcome[hid] = "ok"
  /\ resp.code = 200
  /\ resp.body.status = "done"
  /\ resp.body.result = "payload"
  /\ \E w \in Workers : wpc[w] = "acquire_store" /\ wresult[w] = "ok"

\* C12: a result request for a job whose state is done is answered with
\* the job's result: the payload on Mineru, the converted PDF on
\* LibreOffice, also when an earlier request has been served and the
\* cleanup it scheduled has run; it is never answered as anything but
\* done.
C12_DoneAlwaysServed ==
  /\ (hpc = "m_result" /\ MStatus(hid) = "done") =>
        /\ resp.code = 200
        /\ resp.body.status = "done"
        /\ resp.body.result = "payload"
  /\ (hpc = "c_result" /\ hlocal.status = "done") =>
        LET r == get_conversion_result(hid, hlocal, out_files)
        IN /\ r.code = 200
           /\ r.body.status = "file"
           /\ r.body.file = "pdf"

\* C13: a result request for an identifier that no submission has
\* returned is answered 404, and answering it leaves the registry and
\* the queue as they were.
C13_UnknownIsNotFound ==
  [][/\ (hpc = "m_result" /\ hpc' # "m_result"
           /\ hid \notin Range(ret_log)) =>
          /\ resp.code = 404
          /\ UNCHANGED <<task_status, task_queue>>
     /\ (hpc = "c_result" /\ hpc' # "c_result"
           /\ hid \notin Range(conv_ret_log)) =>
          /\ resp'.code = 404
          /\ UNCHANGED conv_status]_vars

\* C14: a result request for a job whose state is error is answered with
\* HTTP 500 and a body that carries status "error" and the error message,
\* by parse_result and by get_conversion_result alike.
C14_ErrorIs500 ==
  /\ (hpc = "m_result" /\ MStatus(hid) = "error") =>
        /\ resp.code = 500
        /\ resp.body.status = "error"
        /\ resp.body.error = task_status[hid].error
  /\ (hpc = "c_result" /\ hlocal.status = "error") =>
        LET r == get_conversion_result(hid, hlocal, out_files)
        IN /\ r.code = 500
           /\ r.body.status = "error"
           /\ r.body.error = conv_status[hid].error

C16_NoOrphanRecord ==
  (hpc = "respond"
     /\ resp.api \in {"parse_async_file", "converter_to_pdf_async"}) =>
        /\ resp.code >= 400
        /\ DOMAIN task_status = Range(ret_log)
        /\ Range(task_queue) \subseteq Range(ret_log)
        /\ DOMAIN conv_status = Range(conv_ret_log)

\* C17: storing a record under an identifier that already has one fails
\* (the submission does not go on to enqueue) and leaves the registry as
\* it was; an existing record is never overwritten.  Checked where uuid4
\* values may repeat.
C17_CreateRejectsDuplicate ==
  [][/\ (hpc = "m_create" /\ hid \in DOMAIN task_status) =>
          /\ task_status' = task_status
          /\ hpc' # "m_acquire_cv"
     /\ (hpc = "c_create" /\ hid \in DOMAIN conv_status) =>
          /\ conv_status' = conv_status
          /\ hpc' # "c_start"]_vars

\* the positions of a thread that is running _worker_loop
InLoop ==
  {"acquire_cv", "notified", "check_queue", "waiting", "acquire_claim",
   "claim", "call", "acquire_store", "store"}

\* C18: a failed converter call never ends a worker thread: all N workers
\* stay in the loop, a worker whose call failed records the error and
\* comes back to the queue, and a job that is queued once some job has
\* failed is still processed to its end.
C18_WorkerSurvivesFailure ==
  /\ [](\A w \in Workers : wpc[w] \in InLoop)
  /\ \A w \in Workers :
        (wresult[w] = "fail") ~>
           (wpc[w] = "check_queue" /\ wresult[w] = None)
  /\ \A id \in IDs :
        (id \in Range(task_queue) /\ \E j \in IDs : MStatus(j) = "error") ~>
           (MStatus(id) \in Terminal)

\* every job has failed and every worker is back in wait()
C18_Witness ==
  /\ \A id \in IDs : outcome[id] = "fail" /\ MStatus(id) = "error"
  /\ \A w \in Workers : wpc[w] = "waiting"
  /\ cv_waiters = Workers

\* C19: in every reachable state no record carries both a result and an
\* error, and a record that is pending or processing carries neither
\* (the result being result on Mineru and output_path on LibreOffice).
C19_ResultErrorExclusive ==
  /\ \A id \in DOMAIN task_status :
        LET t == task_status[id]
        IN /\ t.result = None \/ t.error = None
           /\ t.status \in {"pending", "processing"} =>
                 t.result = None /\ t.error = None
  /\ \A c \in DOMAIN conv_status :
        LET t == conv_status[c]
        IN /\ t.output_path = None \/ t.error = None
           /\ t.status \in {"pending", "processing"} =>
                 t.output_path = None /\ t.error = None

\* one conversion done and one failed, both stored
C19_Witness ==
  \E c1, c2 \in DOMAIN conv_status :
     /\ conv_status[c1].status = "done"
     /\ conv_status[c1].output_path = "pdf"
     /\ conv_status[c2].status = "error"
     /\ conv_status[c2].error = "msg"

\* C20: no thread is inside the External Converter Client call while it
\* holds the registry lock: whenever a worker or a per-job thread is at
\* the call, the lock is free or held by another thread, and a thread
\* that holds the lock is in one of the short critical sections, so the
\* handlers never wait for a converter call.
C20_NoLockDuringCall ==
  /\ \A w \in Workers : wpc[w] = "call" => task_lock # w
  /\ \A w \in Workers : task_lock = w => wpc[w] \in {"claim", "store"}
  /\ \A c \in CIDs : tpc[c] = "call" => conv_lock # c
  /\ \A c \in CIDs : conv_lock = c => tpc[c] = "store"

\* a result request holds the registry lock while a worker is at the
\* converter call
C20_Witness ==
  /\ task_lock = Loop
  /\ hpc = "m_result"
  /\ \E w \in Workers : wpc[w] = "call"

\* C21: a worker that has dequeued an identifier whose record is missing
\* or is not pending skips it: it goes back to the queue without calling
\* the converter, and the record, the rest of the registry and the queue
\* stay as they were.  Checked where uuid4 values may repeat, which is
\* what puts an identifier into the queue twice.
C21_SkipNotPending ==
  [][\A w \in Workers :
       (/\ wpc[w] = "claim"
        /\ wpc'[w] # "claim"
        /\ \/ wtask[w] \notin DOMAIN task_status
           \/ task_status[wtask[w]].status # "pending") =>
          /\ UNCHANGED <<task_status, task_queue, calls, outcome, clock>>
          /\ wpc'[w] = "acquire_cv"
          /\ wtask'[w] = NoId]_vars

\* one identifier was dequeued twice and the converter called for it once
C21_Witness ==
  /\ Len(deq_log) = 2
  /\ deq_log[1] = deq_log[2]
  /\ calls[deq_log[1]] = 1
  /\ MStatus(deq_log[1]) \in Terminal
  /\ task_queue = <<>>
  /\ \A w \in Workers : wpc[w] = "waiting"

\* the record has the timestamp key and a time under it
HasTime(t, key) == key \in DOMAIN t /\ t[key] # NoTime

\* the timestamps a record must carry in its state, in order
TimesOK(t) ==
  /\ HasTime(t, "created_at")
  /\ HasTime(t, "started_at") <=> t.status \in {"processing", "done", "error"}
  /\ HasTime(t, "finished_at") <=> t.status \in Terminal
  /\ HasTime(t, "started_at") => t.created_at <= t.started_at
  /\ HasTime(t, "finished_at") => t.started_at <= t.finished_at

Processing ==
  {id \in DOMAIN task_status : task_status[id].status = "processing"}

\* LibreOffice job threads that are started and not yet ended
Converting == {c \in CIDs : tpc[c] \in {"call", "acquire", "store"}}

\* C23: on both routers the number of jobs being executed against the
\* converter, and of threads executing them, is at most the number N of
\* workers, however many jobs are submitted.
C23_BoundedByPool ==
  /\ Cardinality(Processing) <= PoolSize
  /\ Cardinality({w \in Workers : wpc[w] = "call"}) <= PoolSize
  /\ Cardinality(Converting) <= PoolSize
  /\ Cardinality({c \in CIDs : tpc[c] = "call"}) <= PoolSize

\* C24: with two workers or more the jobs need not end in the order of
\* their submission: whenever job A was submitted before job B, B is
\* done and A is still processing, B's record has a result and no error
\* and A's record has neither result nor error (C24_Witness: such a
\* state is reached).
C24_OutOfOrder ==
  \A i, j \in 1..Len(sub_log) :
     (/\ i < j
      /\ MStatus(sub_log[j]) = "done"
      /\ MStatus(sub_log[i]) = "processing") =>
        /\ task_status[sub_log[j]].result # None
        /\ task_status[sub_log[j]].error = None
        /\ task_status[sub_log[i]].result = None
        /\ task_status[sub_log[i]].error = None

C24_Witness ==
  /\ NumWorkers >= 2
  /\ \E i, j \in 1..Len(sub_log) :
        /\ i < j
        /\ MStatus(sub_log[j]) = "done"
        /\ task_status[sub_log[j]].result = "payload"
        /\ MStatus(sub_log[i]) = "processing"
        /\ task_status[sub_log[i]].result = None
        /\ task_status[sub_log[i]].error = None

\* the threads of the Mineru router: the workers and the event loop
Threads == Workers \cup {Loop}

\* a step of some thread: a worker's, or the event loop's inside a request
\* it has begun (the arrival of a new request is not a step of a thread)
ThreadStep ==
  \/ \E w \in Workers : WorkerRun(w) \/ WorkerLock(w)
  \/ HandlerRun

\* C25: no thread ever holds the registry lock and the queue monitor
\* together, a thread that holds one of them can always go on without
\* waiting for anything, and when no thread can step the queue is empty
\* and every worker is blocked in wait().
C25_NoDeadlock ==
  /\ \A t \in Threads : ~(task_lock = t /\ queue_cv = t)
  /\ \A w \in Workers :
        (task_lock = w \/ queue_cv = w) => ENABLED WorkerRun(w)
  /\ (task_lock = Loop \/ queue_cv = Loop) => ENABLED HandlerRun
  /\ (router = "mineru" /\ ~ENABLED ThreadStep) =>
        /\ task_queue = <<>>
        /\ \A w \in Workers : wpc[w] = "waiting"

\* work was done and nothing can step: both locks are free, the queue is
\* empty and the workers wait
C25_Witness ==
  /\ router = "mineru"
  /\ ~ENABLED ThreadStep
  /\ Len(deq_log) = MaxJobs
  /\ task_lock = Free
  /\ queue_cv = Free
  /\ hpc = "idle"
====
